---- MODULE Spec2Model ----
(***************************************************************************)
(* Model of the editor state of src/App.tsx: the clip collection, the      *)
(* playhead, the selection, the asset lists and the asynchronous caption   *)
(* request (handleAutoCaptions), together with the projection computed on  *)
(* every render (activeClip, playerSrc, activeCaptions).                   *)
(*                                                                         *)
(* Times are seconds, modelled as integers.  Strings produced by           *)
(* formatting (clip ids, object URLs) are modelled by the tuple of values  *)
(* that determines the formatted string.                                   *)
(***************************************************************************)
EXTENDS Integers, Sequences, FiniteSets, TLC

VARIABLES
    currentTime,          \* editorState.currentTime
    duration,             \* editorState.duration
    isPlaying,            \* editorState.isPlaying
    selectedClipId,       \* editorState.selectedClipId
    clips,                \* editorState.clips
    uploadedFiles,        \* useState<string[]> uploadedFiles
    generatedImages,      \* useState<string[]> generatedImages
    isGeneratingImg,      \* useState isGeneratingImg
    isGeneratingCaptions, \* useState isGeneratingCaptions
    capPc,                \* position of the running handleAutoCaptions call
    selectedClip,         \* const selectedClip captured by handleAutoCaptions
    captions,             \* const captions of handleAutoCaptions (while aligning)
    newClips,             \* const newClips of handleAutoCaptions (while aligning)
    now,                  \* the value Date.now() returns
    alert                 \* the message window.alert showed in the last step ("" if none)

vars == <<currentTime, duration, isPlaying, selectedClipId, clips, uploadedFiles,
          generatedImages, isGeneratingImg, isGeneratingCaptions, capPc,
          selectedClip, captions, newClips, now, alert>>

editorVars == <<currentTime, duration, isPlaying, selectedClipId, clips>>
assetVars == <<uploadedFiles, generatedImages, isGeneratingImg>>
captionVars == <<isGeneratingCaptions, capPc, selectedClip, captions, newClips>>

----------------------------------------------------------------------------
(* Bounds of the model *)

MaxTime == 1          \* playhead positions 0..MaxTime reported by seek / timeupdate
MaxClips == 2         \* the store is not grown beyond this length
MaxUploads == 1       \* number of file uploads
MaxImages == 1        \* number of generated images
MaxNow == 1           \* Date.now() takes the values 0..MaxNow
MaxCapTime == 2       \* caption start / end times returned by the transcription
MaxMediaDuration == 1 \* media durations 1..MaxMediaDuration reported by the player
MaxCaps == 1          \* number of caption spans in one transcription result

\* bounds of the inputs drawn for the caption alignment taken alone (AlignSpec)
AlnMaxStart == 1      \* timeline start of the source clip: 0..AlnMaxStart
AlnMaxOffset == 2     \* trim offset of the source clip: 0..AlnMaxOffset
AlnMaxDuration == 4   \* duration of the source clip: 1..AlnMaxDuration
AlnMaxCapTime == 9    \* caption start / end times: 0..AlnMaxCapTime
AlnMaxPairTime == 3   \* caption start / end times of a two-span result: 0..AlnMaxPairTime

\* bounds of the stores drawn for the projection taken alone (ProjSpec)
ProjMaxClips == 2     \* number of clips in the store
ProjMaxStart == 3     \* timeline start of an added or text clip: 0..ProjMaxStart
ProjMaxTextDur == 2   \* duration of a text clip: 1..ProjMaxTextDur
ProjMaxTime == 6      \* playhead positions 0..ProjMaxTime

(* Program constants *)

UPLOAD_DURATION == 10     \* duration: 10 in handleFileUpload
ADD_DURATION == 5         \* duration: 5 in addToTimeline
SEEK_DEFAULT == 10        \* duration || 10 in handleTimelineClick

Texts == {"a", "b"}       \* caption texts returned by the transcription

----------------------------------------------------------------------------
(* Values *)

\* Date.now().toString(): decimal digits of the clock value
TimestampId(t) == [pre |-> "", t |-> t, idx |-> 0]

\* `caption-${Date.now()}-${index}`
CaptionId(t, index) == [pre |-> "caption-", t |-> t, idx |-> index]

\* selectedClipId: null
NullId == [pre |-> "null", t |-> 0, idx |-> 0]

\* URL.createObjectURL(file): a fresh blob: URL for every call
BlobUrl(n) == [scheme |-> "blob", n |-> n]

\* the base64 data URL returned by generateImage
DataUrl(n) == [scheme |-> "data", n |-> n]

\* src: '' of a text clip
EmptySrc == [scheme |-> "", n |-> 0]

\* playerSrc: null
NullSrc == [scheme |-> "null", n |-> 0]

\* the EditorClip object literal
EditorClip(id, type, src, name, dur, startTime, offset) ==
    [id |-> id, type |-> type, src |-> src, name |-> name,
     duration |-> dur, startTime |-> startTime, offset |-> offset]

\* `undefined` result of Array.prototype.find / `null` returned by the map callback
NullClip == EditorClip(NullId, "null", NullSrc, "", 0, 0, 0)

----------------------------------------------------------------------------
(* Array helpers *)

\* Array.prototype.findLast in place of find: the last of the elements
\* satisfying the test
FindLast(hits) == IF Len(hits) = 0 THEN NullClip ELSE hits[Len(hits)]

\* Array.prototype.find: the first of the elements satisfying the test (hits,
\* in array order), or undefined
Find(hits) == IF Len(hits) = 0 THEN NullClip ELSE Head(hits)

\* the ids of the clips rendered by the Timeline (renderClip, key / onClick)
ClipIds(arr) == {arr[i].id : i \in DOMAIN arr}

----------------------------------------------------------------------------
(* Projection: computed from editorState on every render *)

\* IsActiveVideo accepting image clips as well as video clips
IsActiveVideo_OrImage(c) ==
    /\ currentTime >= c.startTime
    /\ currentTime < c.startTime + c.duration
    /\ c.type \in {"video", "image"}

\* the predicate of the activeClip find
IsActiveVideo(c) ==
    /\ currentTime >= c.startTime
    /\ currentTime < c.startTime + c.duration
    /\ c.type = "video"

\* activeClip taking the last matching clip instead of the first
activeClip_LastMatch == FindLast(SelectSeq(clips, IsActiveVideo))

activeClip == Find(SelectSeq(clips, IsActiveVideo))

\* the fallback taking the first clip of any media kind
IsVideo_OrImage(c) == c.type \in {"video", "image"}

IsVideo(c) == c.type = "video"

\* activeClip ? activeClip.src : (clips.find(video)?.src || null)
playerSrc ==
    IF activeClip # NullClip
    THEN activeClip.src
    ELSE LET first == Find(SelectSeq(clips, IsVideo))
         IN  IF first = NullClip \/ first.src = EmptySrc THEN NullSrc ELSE first.src

\* IsActiveText with the end of the interval included (<= in place of <)
IsActiveText_EndInclusive(c) ==
    /\ c.type = "text"
    /\ currentTime >= c.startTime
    /\ currentTime <= c.startTime + c.duration

\* the predicate of the activeCaptions filter
IsActiveText(c) ==
    /\ c.type = "text"
    /\ currentTime >= c.startTime
    /\ currentTime < c.startTime + c.duration

activeCaptions ==
    LET shown == SelectSeq(clips, IsActiveText)
    IN  [i \in 1..Len(shown) |-> shown[i].name]

----------------------------------------------------------------------------
(* Caption alignment: the filter / map / filter chain of handleAutoCaptions *)

Max(a, b) == IF a >= b THEN a ELSE b
Min(a, b) == IF a <= b THEN a ELSE b

\* CaptionOverlaps asking for containment in the trimmed source range instead
\* of overlap with it
CaptionOverlaps_Contained(sel, cap) ==
    LET clipEndSource == sel.offset + sel.duration
    IN  cap.startTime >= sel.offset /\ cap.endTime <= clipEndSource

\* first filter: the overlap check against the trimmed source range
CaptionOverlaps(sel, cap) ==
    LET clipEndSource == sel.offset + sel.duration
    IN  cap.startTime < clipEndSource /\ cap.endTime > sel.offset

\* CaptionToClip without the `if (duration <= 0) return null` line
CaptionToClip_NoDegenerateCheck(sel, cap, index, t) ==
    LET relativeStart == cap.startTime - sel.offset
        relativeEnd == cap.endTime - sel.offset
        startInClip == Max(0, relativeStart)
        endInClip == Min(sel.duration, relativeEnd)
        dur == endInClip - startInClip
    IN  EditorClip(CaptionId(t, index), "text", EmptySrc, cap.text, dur,
                   sel.startTime + startInClip, 0)

\* CaptionToClip without the Math.max clamp of the start to the clip's start
CaptionToClip_NoStartClamp(sel, cap, index, t) ==
    LET relativeStart == cap.startTime - sel.offset
        relativeEnd == cap.endTime - sel.offset
        startInClip == relativeStart
        endInClip == Min(sel.duration, relativeEnd)
        dur == endInClip - startInClip
    IN  IF dur <= 0
        THEN NullClip
        ELSE EditorClip(CaptionId(t, index), "text", EmptySrc, cap.text, dur,
                        sel.startTime + startInClip, 0)

\* CaptionToClip without the Math.min clamp of the end to the clip's duration
CaptionToClip_NoEndClamp(sel, cap, index, t) ==
    LET relativeStart == cap.startTime - sel.offset
        relativeEnd == cap.endTime - sel.offset
        startInClip == Max(0, relativeStart)
        endInClip == relativeEnd
        dur == endInClip - startInClip
    IN  IF dur <= 0
        THEN NullClip
        ELSE EditorClip(CaptionId(t, index), "text", EmptySrc, cap.text, dur,
                        sel.startTime + startInClip, 0)

\* the map callback: a text clip, or null when the clamped duration is <= 0
CaptionToClip(sel, cap, index, t) ==
    LET relativeStart == cap.startTime - sel.offset
        relativeEnd == cap.endTime - sel.offset
        startInClip == Max(0, relativeStart)
        endInClip == Min(sel.duration, relativeEnd)
        dur == endInClip - startInClip
    IN  IF dur <= 0
        THEN NullClip
        ELSE EditorClip(CaptionId(t, index), "text", EmptySrc, cap.text, dur,
                        sel.startTime + startInClip, 0)

\* .filter(Boolean)
IsClip(c) == c # NullClip

\* AlignCaptions taking caption times as clip-local times (the trim offset is
\* never subtracted)
AlignCaptions_IgnoreOffset(sel, caps, t) ==
    LET untrimmed == [sel EXCEPT !.offset = 0]
        Keep(cap) == CaptionOverlaps(untrimmed, cap)
        kept == SelectSeq(caps, Keep)
        mapped == [i \in 1..Len(kept) |-> CaptionToClip(untrimmed, kept[i], i - 1, t)]
    IN  SelectSeq(mapped, IsClip)

\* AlignCaptions giving up on the whole result as soon as one span is dropped
AlignCaptions_AbortOnDrop(sel, caps, t) ==
    LET Keep(cap) == CaptionOverlaps(sel, cap)
        kept == SelectSeq(caps, Keep)
        mapped == [i \in 1..Len(kept) |-> CaptionToClip(sel, kept[i], i - 1, t)]
        emitted == SelectSeq(mapped, IsClip)
    IN  IF Len(emitted) < Len(caps) THEN <<>> ELSE emitted

\* const newClips = captions.filter(...).map(...).filter(Boolean)
AlignCaptions(sel, caps, t) ==
    LET Keep(cap) == CaptionOverlaps(sel, cap)
        kept == SelectSeq(caps, Keep)
        mapped == [i \in 1..Len(kept) |-> CaptionToClip(sel, kept[i], i - 1, t)]
    IN  SelectSeq(mapped, IsClip)

----------------------------------------------------------------------------
(* Inputs *)

Times == 0..MaxTime

FileTypes == {"video", "image"}

\* a caption span { startTime, endTime, text } as returned by generateCaptions
Caption(startTime, endTime, text) ==
    [startTime |-> startTime, endTime |-> endTime, text |-> text]

Captions ==
    {Caption(s, e, x) : s \in 0..MaxCapTime, e \in 0..MaxCapTime, x \in Texts}

SeqsUpTo(S, n) == UNION {[1..k -> S] : k \in 0..n}

CaptionSeqs == SeqsUpTo(Captions, MaxCaps)

----------------------------------------------------------------------------
(* Initial state: the useState initial values *)

Init ==
    /\ currentTime = 0
    /\ duration = 0
    /\ isPlaying = FALSE
    /\ selectedClipId = NullId
    /\ clips = <<>>
    /\ uploadedFiles = <<>>
    /\ generatedImages = <<>>
    /\ isGeneratingImg = FALSE
    /\ isGeneratingCaptions = FALSE
    /\ capPc = "idle"
    /\ selectedClip = NullClip
    /\ captions = <<>>
    /\ newClips = <<>>
    /\ now = 0
    /\ alert = ""

----------------------------------------------------------------------------
(* Player and timeline handlers *)

\* the <video> element exists only when VideoPlayer is given a src
PlayerMounted == playerSrc # NullSrc

handleTimeUpdate(time) ==
    /\ PlayerMounted
    /\ currentTime' = time
    /\ UNCHANGED <<duration, isPlaying, selectedClipId, clips>>
    /\ UNCHANGED <<assetVars, captionVars, now>>
    /\ alert' = ""

handleDurationChange(d) ==
    /\ PlayerMounted
    /\ duration' = d
    /\ UNCHANGED <<currentTime, isPlaying, selectedClipId, clips>>
    /\ UNCHANGED <<assetVars, captionVars, now>>
    /\ alert' = ""

handlePlayPause ==
    /\ PlayerMounted
    /\ isPlaying' = ~isPlaying
    /\ UNCHANGED <<currentTime, duration, selectedClipId, clips>>
    /\ UNCHANGED <<assetVars, captionVars, now>>
    /\ alert' = ""

\* handleSeek dropping the selection (spreading a state without selectedClipId)
handleSeek_Deselect(time) ==
    /\ time <= (IF duration = 0 THEN SEEK_DEFAULT ELSE duration)
    /\ currentTime' = time
    /\ selectedClipId' = NullId
    /\ UNCHANGED <<duration, isPlaying, clips>>
    /\ UNCHANGED <<assetVars, captionVars, now>>
    /\ alert' = ""

\* handleTimelineClick computes percentage * (duration || 10), percentage in [0, 1]
handleSeek(time) ==
    /\ time <= (IF duration = 0 THEN SEEK_DEFAULT ELSE duration)
    /\ currentTime' = time
    /\ UNCHANGED <<duration, isPlaying, selectedClipId, clips>>
    /\ UNCHANGED <<assetVars, captionVars, now>>
    /\ alert' = ""

onSelectClip(id) ==
    /\ id \in ClipIds(clips)
    /\ selectedClipId' = id
    /\ UNCHANGED <<currentTime, duration, isPlaying, clips>>
    /\ UNCHANGED <<assetVars, captionVars, now>>
    /\ alert' = ""

\* handleDelete filtering the clips but leaving selectedClipId as it was
handleDelete_KeepSelection ==
    /\ IF selectedClipId # NullId
       THEN LET Keep(c) == c.id # selectedClipId
            IN  /\ clips' = SelectSeq(clips, Keep)
                /\ UNCHANGED selectedClipId
       ELSE UNCHANGED <<clips, selectedClipId>>
    /\ UNCHANGED <<currentTime, duration, isPlaying>>
    /\ UNCHANGED <<assetVars, captionVars, now>>
    /\ alert' = ""

handleDelete ==
    /\ IF selectedClipId # NullId
       THEN LET Keep(c) == c.id # selectedClipId
            IN  /\ clips' = SelectSeq(clips, Keep)
                /\ selectedClipId' = NullId
       ELSE UNCHANGED <<clips, selectedClipId>>
    /\ UNCHANGED <<currentTime, duration, isPlaying>>
    /\ UNCHANGED <<assetVars, captionVars, now>>
    /\ alert' = ""

----------------------------------------------------------------------------
(* Asset handlers *)

\* handleFileUpload without the `editorState.clips.length === 0` test: every
\* upload resets the store to the uploaded clip
handleFileUpload_AlwaysReplace(fileType) ==
    /\ Len(uploadedFiles) < MaxUploads
    /\ LET url == BlobUrl(Len(uploadedFiles) + 1)
           newClip == EditorClip(TimestampId(now), fileType, url, "file",
                                 UPLOAD_DURATION, 0, 0)
       IN  /\ uploadedFiles' = Append(uploadedFiles, url)
           /\ clips' = <<newClip>>
           /\ selectedClipId' = newClip.id
    /\ UNCHANGED <<currentTime, duration, isPlaying>>
    /\ UNCHANGED <<generatedImages, isGeneratingImg, captionVars, now>>
    /\ alert' = ""

handleFileUpload(fileType) ==
    /\ Len(uploadedFiles) < MaxUploads
    /\ LET url == BlobUrl(Len(uploadedFiles) + 1)
           newClip == EditorClip(TimestampId(now), fileType, url, "file",
                                 UPLOAD_DURATION, 0, 0)
       IN  /\ uploadedFiles' = Append(uploadedFiles, url)
           /\ IF Len(clips) = 0
              THEN /\ clips' = <<newClip>>
                   /\ selectedClipId' = newClip.id
              ELSE UNCHANGED <<clips, selectedClipId>>
    /\ UNCHANGED <<currentTime, duration, isPlaying>>
    /\ UNCHANGED <<generatedImages, isGeneratingImg, captionVars, now>>
    /\ alert' = ""

\* the button is disabled while isGeneratingImg
handleGenerateImage ==
    /\ ~isGeneratingImg
    /\ Len(generatedImages) < MaxImages
    /\ isGeneratingImg' = TRUE
    /\ UNCHANGED <<editorVars, uploadedFiles, generatedImages, captionVars, now>>
    /\ alert' = ""

generateImageResolve ==
    /\ isGeneratingImg
    /\ generatedImages' = <<DataUrl(Len(generatedImages) + 1)>> \o generatedImages
    /\ isGeneratingImg' = FALSE
    /\ UNCHANGED <<editorVars, uploadedFiles, captionVars, now>>
    /\ alert' = ""

generateImageReject ==
    /\ isGeneratingImg
    /\ alert' = "Failed to generate image"
    /\ isGeneratingImg' = FALSE
    /\ UNCHANGED <<editorVars, uploadedFiles, generatedImages, captionVars, now>>

\* addToTimeline placing the new clip at the start of the timeline instead of
\* at editorState.currentTime
addToTimeline_AtZero(src, type) ==
    /\ Len(clips) < MaxClips
    /\ LET newClip == EditorClip(TimestampId(now), type, src,
                                 IF type = "image" THEN "Generated Image" ELSE "Video Clip",
                                 ADD_DURATION, 0, 0)
       IN  clips' = Append(clips, newClip)
    /\ UNCHANGED <<currentTime, duration, isPlaying, selectedClipId>>
    /\ UNCHANGED <<assetVars, captionVars, now>>
    /\ alert' = ""

addToTimeline(src, type) ==
    /\ Len(clips) < MaxClips
    /\ LET newClip == EditorClip(TimestampId(now), type, src,
                                 IF type = "image" THEN "Generated Image" ELSE "Video Clip",
                                 ADD_DURATION, currentTime, 0)
       IN  clips' = Append(clips, newClip)
    /\ UNCHANGED <<currentTime, duration, isPlaying, selectedClipId>>
    /\ UNCHANGED <<assetVars, captionVars, now>>
    /\ alert' = ""

\* onClick of an uploaded-file tile
addUploadedToTimeline ==
    \E i \in DOMAIN uploadedFiles : addToTimeline(uploadedFiles[i], "video")

\* onClick of a generated-image tile
addGeneratedToTimeline ==
    \E i \in DOMAIN generatedImages : addToTimeline(generatedImages[i], "image")

----------------------------------------------------------------------------
(* handleAutoCaptions: an async function, one action per resumption *)

\* up to the first await; the button is disabled while isGeneratingCaptions or
\* when nothing is selected
handleAutoCaptions ==
    /\ ~isGeneratingCaptions
    /\ selectedClipId # NullId
    /\ capPc = "idle"
    /\ LET HasId(c) == c.id = selectedClipId
           found == Find(SelectSeq(clips, HasId))
       IN  IF found = NullClip \/ found.type # "video"
           THEN /\ alert' = "Please select a video clip"
                /\ UNCHANGED captionVars
           ELSE /\ isGeneratingCaptions' = TRUE
                /\ capPc' = "fetch"
                /\ selectedClip' = found
                /\ UNCHANGED <<captions, newClips>>
                /\ alert' = ""
    /\ UNCHANGED <<editorVars, assetVars, now>>

\* await fetch(selectedClip.src) and response.blob() succeed
fetchResolve ==
    /\ capPc = "fetch"
    /\ capPc' = "transcribe"
    /\ UNCHANGED <<isGeneratingCaptions, selectedClip, captions, newClips>>
    /\ UNCHANGED <<editorVars, assetVars, now>>
    /\ alert' = ""

\* CaptionsFailed with a catch block that only logs (no alert)
CaptionsFailed_Silent ==
    /\ alert' = ""
    /\ isGeneratingCaptions' = FALSE
    /\ capPc' = "idle"
    /\ selectedClip' = NullClip
    /\ UNCHANGED <<captions, newClips>>
    /\ UNCHANGED <<editorVars, assetVars, now>>

\* catch + finally
CaptionsFailed ==
    /\ alert' = "Failed to generate captions"
    /\ isGeneratingCaptions' = FALSE
    /\ capPc' = "idle"
    /\ selectedClip' = NullClip
    /\ UNCHANGED <<captions, newClips>>
    /\ UNCHANGED <<editorVars, assetVars, now>>

fetchReject ==
    /\ capPc = "fetch"
    /\ CaptionsFailed

generateCaptionsReject ==
    /\ capPc = "transcribe"
    /\ CaptionsFailed

\* generateCaptionsResolve writing a store rebuilt from what the closure
\* captured when the request started, instead of spreading prev.clips
generateCaptionsResolve_StaleStore(caps) ==
    /\ capPc = "transcribe"
    /\ LET aligned == AlignCaptions(selectedClip, caps, now)
       IN  IF Len(caps) = 0
           THEN /\ alert' = "No speech detected"
                /\ UNCHANGED clips
           ELSE IF Len(aligned) = 0
           THEN /\ alert' = "Captions generated but none fall within"
                /\ UNCHANGED clips
           ELSE /\ Len(clips) + Len(aligned) <= MaxClips
                /\ clips' = <<selectedClip>> \o aligned
                /\ alert' = ""
    /\ isGeneratingCaptions' = FALSE
    /\ capPc' = "idle"
    /\ selectedClip' = NullClip
    /\ UNCHANGED <<captions, newClips>>
    /\ UNCHANGED <<currentTime, duration, isPlaying, selectedClipId, assetVars, now>>

\* generateCaptionsResolve with the reset of the flag placed after the append
\* instead of in a finally block: the two early returns leave the flag set
generateCaptionsResolve_NoFinally(caps) ==
    /\ capPc = "transcribe"
    /\ LET aligned == AlignCaptions(selectedClip, caps, now)
       IN  IF Len(caps) = 0
           THEN /\ alert' = "No speech detected"
                /\ UNCHANGED <<clips, isGeneratingCaptions>>
           ELSE IF Len(aligned) = 0
           THEN /\ alert' = "Captions generated but none fall within"
                /\ UNCHANGED <<clips, isGeneratingCaptions>>
           ELSE /\ Len(clips) + Len(aligned) <= MaxClips
                /\ clips' = clips \o aligned
                /\ alert' = ""
                /\ isGeneratingCaptions' = FALSE
    /\ capPc' = "idle"
    /\ selectedClip' = NullClip
    /\ UNCHANGED <<captions, newClips>>
    /\ UNCHANGED <<currentTime, duration, isPlaying, selectedClipId, assetVars, now>>

\* generateCaptionsResolve with one check `newClips.length === 0` standing for
\* both early returns: an empty result and a result with no surviving span are
\* reported alike
generateCaptionsResolve_OneEmptyCheck(caps) ==
    /\ capPc = "transcribe"
    /\ LET aligned == AlignCaptions(selectedClip, caps, now)
       IN  IF Len(aligned) = 0
           THEN /\ alert' = "No speech detected"
                /\ UNCHANGED clips
           ELSE /\ Len(clips) + Len(aligned) <= MaxClips
                /\ clips' = clips \o aligned
                /\ alert' = ""
    /\ isGeneratingCaptions' = FALSE
    /\ capPc' = "idle"
    /\ selectedClip' = NullClip
    /\ UNCHANGED <<captions, newClips>>
    /\ UNCHANGED <<currentTime, duration, isPlaying, selectedClipId, assetVars, now>>

\* await generateCaptions(blob) returns caps: the rest of the try block and finally
generateCaptionsResolve(caps) ==
    /\ capPc = "transcribe"
    /\ LET aligned == AlignCaptions(selectedClip, caps, now)
       IN  IF Len(caps) = 0
           THEN /\ alert' = "No speech detected"
                /\ UNCHANGED clips
           ELSE IF Len(aligned) = 0
           THEN /\ alert' = "Captions generated but none fall within"
                /\ UNCHANGED clips
           ELSE /\ Len(clips) + Len(aligned) <= MaxClips
                /\ clips' = clips \o aligned
                /\ alert' = ""
    /\ isGeneratingCaptions' = FALSE
    /\ capPc' = "idle"
    /\ selectedClip' = NullClip
    /\ UNCHANGED <<captions, newClips>>
    /\ UNCHANGED <<currentTime, duration, isPlaying, selectedClipId, assetVars, now>>

----------------------------------------------------------------------------
(* The clock read by Date.now() *)

Tick ==
    /\ now < MaxNow
    /\ now' = now + 1
    /\ UNCHANGED <<editorVars, assetVars, captionVars>>
    /\ alert' = ""

----------------------------------------------------------------------------

Next ==
    \/ \E time \in Times : handleTimeUpdate(time)
    \/ \E d \in 1..MaxMediaDuration : handleDurationChange(d)
    \/ handlePlayPause
    \/ \E time \in Times : handleSeek(time)
    \/ \E id \in ClipIds(clips) : onSelectClip(id)
    \/ handleDelete
    \/ \E fileType \in FileTypes : handleFileUpload(fileType)
    \/ handleGenerateImage
    \/ generateImageResolve
    \/ generateImageReject
    \/ addUploadedToTimeline
    \/ addGeneratedToTimeline
    \/ handleAutoCaptions
    \/ fetchResolve
    \/ fetchReject
    \/ generateCaptionsReject
    \/ \E caps \in CaptionSeqs : generateCaptionsResolve(caps)
    \/ Tick

Spec == Init /\ [][Next]_vars

----------------------------------------------------------------------------
(* The caption alignment taken alone: the source clip and the caption spans   *)
(* are drawn from bounded sets, and one step evaluates the newClips           *)
(* expression of handleAutoCaptions on them.                                  *)

AlignSourceClips ==
    {EditorClip(TimestampId(0), "video", BlobUrl(1), "Video Clip", d, st, off) :
        d \in 1..AlnMaxDuration, st \in 0..AlnMaxStart, off \in 0..AlnMaxOffset}

AlignCaptions1 ==
    {Caption(s, e, x) : s \in 0..AlnMaxCapTime, e \in 0..AlnMaxCapTime, x \in Texts}

AlignCaptions2 ==
    {Caption(s, e, x) : s \in 0..AlnMaxPairTime, e \in 0..AlnMaxPairTime, x \in Texts}

AlignCaptionSeqs ==
    {<<>>} \cup {<<cap>> : cap \in AlignCaptions1}
           \cup {<<c1, c2>> : c1 \in AlignCaptions2, c2 \in AlignCaptions2}

AlignInit ==
    /\ selectedClip \in AlignSourceClips
    /\ captions \in AlignCaptionSeqs
    /\ newClips = <<>>
    /\ capPc = "align"
    /\ isGeneratingCaptions = TRUE
    /\ clips = <<selectedClip>>
    /\ selectedClipId = selectedClip.id
    /\ currentTime = 0
    /\ duration = 0
    /\ isPlaying = FALSE
    /\ uploadedFiles = <<BlobUrl(1)>>
    /\ generatedImages = <<>>
    /\ isGeneratingImg = FALSE
    /\ now = 0
    /\ alert = ""

alignStep ==
    /\ capPc = "align"
    /\ newClips' = AlignCaptions(selectedClip, captions, now)
    /\ capPc' = "aligned"
    /\ UNCHANGED <<editorVars, assetVars, isGeneratingCaptions, selectedClip,
                   captions, now, alert>>

\* setEditorState(prev => ({ ...prev, clips: [...prev.clips, ...newClips] }))
appendStep ==
    /\ capPc = "aligned"
    /\ Len(newClips) > 0
    /\ clips' = clips \o newClips
    /\ capPc' = "appended"
    /\ UNCHANGED <<currentTime, duration, isPlaying, selectedClipId, assetVars,
                   isGeneratingCaptions, selectedClip, captions, newClips, now, alert>>

AlignNext == alignStep \/ appendStep

AlignSpec == AlignInit /\ [][AlignNext]_vars

----------------------------------------------------------------------------
(* The projection taken alone: the store is drawn from the stores the         *)
(* handlers can build (an uploaded clip first, added clips at a playhead      *)
(* position, caption clips), and the playhead is moved over it.               *)

ProjVisualClips(i) ==
    {EditorClip(TimestampId(i), "video", BlobUrl(1), "Video Clip", ADD_DURATION, st, 0) :
        st \in 0..ProjMaxStart}
    \cup
    {EditorClip(TimestampId(i), "image", DataUrl(1), "Generated Image", ADD_DURATION, st, 0) :
        st \in 0..ProjMaxStart}
    \cup
    (IF i = 1
     THEN {EditorClip(TimestampId(i), ft, BlobUrl(1), "file", UPLOAD_DURATION, 0, 0) :
              ft \in FileTypes}
     ELSE {})

ProjTextClips(i) ==
    {EditorClip(CaptionId(i, 0), "text", EmptySrc, x, d, st, 0) :
        x \in Texts, d \in 1..ProjMaxTextDur, st \in 0..ProjMaxStart}

\* the clips a store of at most n clips can hold at position i
ProjClipsAt(i) == ProjVisualClips(i) \cup ProjTextClips(i)

ProjClips == UNION {ProjClipsAt(i) : i \in 1..ProjMaxClips}

\* a store of k clips: the clip at position i is one of ProjClipsAt(i), that is,
\* it carries the id of its position and an uploaded clip comes first
IsProjStore(st, k) ==
    \A i \in 1..k : st[i].id.t = i /\ (st[i].name = "file" => i = 1)

ProjInit ==
    /\ \E k \in 0..ProjMaxClips :
          clips \in {st \in [1..k -> ProjClips] : IsProjStore(st, k)}
    /\ currentTime = 0
    /\ duration = 0
    /\ isPlaying = FALSE
    /\ selectedClipId = NullId
    /\ uploadedFiles = <<BlobUrl(1)>>
    /\ generatedImages = <<DataUrl(1)>>
    /\ isGeneratingImg = FALSE
    /\ isGeneratingCaptions = FALSE
    /\ capPc = "idle"
    /\ selectedClip = NullClip
    /\ captions = <<>>
    /\ newClips = <<>>
    /\ now = ProjMaxClips
    /\ alert = ""

ProjNext ==
    \/ \E time \in 0..ProjMaxTime : handleSeek(time)
    \/ \E time \in 0..ProjMaxTime : handleTimeUpdate(time)

ProjSpec == ProjInit /\ [][ProjNext]_vars

----------------------------------------------------------------------------
(* Properties *)

\* C1: every clip in the store has duration > 0 and startTime >= 0, whatever
\* uploads, additions, caption results (malformed spans included), deletions,
\* selections and seeks have happened: a degenerate clip is never stored.
C1_ClipsWellFormed ==
    \A i \in DOMAIN clips : clips[i].duration > 0 /\ clips[i].startTime >= 0

\* a store holding a caption clip next to a clip added at a playhead position > 0
C1_Witness ==
    /\ \E i \in DOMAIN clips : clips[i].type = "text"
    /\ \E j \in DOMAIN clips : clips[j].type # "text" /\ clips[j].startTime > 0

\* C2: no two clips of the store share an id.
C2_IdsUnique ==
    \A i, j \in DOMAIN clips : i # j => clips[i].id # clips[j].id


\* --- projection ---

\* the clip's interval [startTime, startTime + duration) contains the playhead
ContainsPlayhead(c) ==
    c.startTime <= currentTime /\ currentTime < c.startTime + c.duration

VideoHits == {i \in DOMAIN clips : clips[i].type = "video" /\ ContainsPlayhead(clips[i])}

VisualHits ==
    {i \in DOMAIN clips : clips[i].type \in {"video", "image"} /\ ContainsPlayhead(clips[i])}

SetMin(S) == CHOOSE x \in S : \A y \in S : x <= y
SetMax(S) == CHOOSE x \in S : \A y \in S : x >= y

\* C3 as stated: whenever some video or image clip contains the playhead, the
\* active clip is one of the video or image clips containing it.
C3_VideoOrImageEligible ==
    VisualHits # {} => \E i \in VisualHits : activeClip = clips[i]

\* C3 as amended: the active clip is chosen among the video clips only: it is a
\* video clip containing the playhead whenever one exists, and there is none
\* otherwise, even when an image clip contains the playhead.
C3_VideoOnly ==
    /\ VideoHits # {} => \E i \in VideoHits : activeClip = clips[i]
    /\ VideoHits = {} => activeClip = NullClip

\* an image clip and a later video clip both contain the playhead, and the
\* video clip is the active one
C3_Witness ==
    /\ \E i \in VisualHits : clips[i].type = "image" /\ \E j \in VideoHits : i < j
    /\ activeClip.type = "video"

\* C4 as stated: with several video clips containing the playhead, the active
\* clip is the last of them in collection order.
C4_LastMatchWins ==
    Cardinality(VideoHits) >= 2 => activeClip = clips[SetMax(VideoHits)]

\* C4 as amended: with several video clips containing the playhead, the active
\* clip is the first of them in collection order (the earliest inserted).
C4_FirstMatchWins ==
    Cardinality(VideoHits) >= 2 => activeClip = clips[SetMin(VideoHits)]

\* two different video clips contain the playhead and the first is active
C4_Witness ==
    /\ Cardinality(VideoHits) >= 2
    /\ clips[SetMin(VideoHits)] # clips[SetMax(VideoHits)]
    /\ activeClip = clips[SetMin(VideoHits)]

VideoIdx == {i \in DOMAIN clips : clips[i].type = "video"}

TextHits == {i \in DOMAIN clips : clips[i].type = "text" /\ ContainsPlayhead(clips[i])}

\* the position among the active captions of the text clip at index i
CaptionRank(i) == Cardinality({j \in TextHits : j <= i})

\* the store of the example: a video clip [0,10) and a text clip [3,5)
IsExampleStore ==
    /\ Len(clips) = 2
    /\ \E i, j \in DOMAIN clips :
          /\ clips[i].type = "video" /\ clips[i].startTime = 0 /\ clips[i].duration = 10
          /\ clips[j].type = "text" /\ clips[j].startTime = 3 /\ clips[j].duration = 2

\* C6: the active captions are exactly the labels of the text clips with
\* startTime <= t < startTime + duration, one entry per clip, in collection
\* order; no other clip contributes.  For video [0,10) and text [3,5): one
\* caption at t = 4, none at t = 5 and t = 6.
C6_ActiveCaptions ==
    /\ Len(activeCaptions) = Cardinality(TextHits)
    /\ \A i \in TextHits : activeCaptions[CaptionRank(i)] = clips[i].name
    /\ IsExampleStore =>
          /\ currentTime = 4 => Len(activeCaptions) = 1
          /\ currentTime \in {5, 6} => Len(activeCaptions) = 0

\* the example store with the playhead at 4: the video clip is active and there
\* is exactly one caption
C6_Witness ==
    /\ IsExampleStore
    /\ currentTime = 4
    /\ activeClip.type = "video"
    /\ Len(activeCaptions) = 1

\* C7: a step that moves the playhead changes nothing else of the editor state
\* (clips, selection, duration, play state), and as long as clips and playhead
\* are the same the projection is the same.
C7_PlayheadFrame ==
    [][/\ currentTime' # currentTime =>
             UNCHANGED <<clips, selectedClipId, duration, isPlaying>>
       /\ (clips' = clips /\ currentTime' = currentTime) =>
             /\ activeClip' = activeClip
             /\ playerSrc' = playerSrc
             /\ activeCaptions' = activeCaptions]_vars

\* the playhead has been moved while the store holds clips and one is selected
C7_Witness ==
    /\ currentTime # 0
    /\ clips # <<>>
    /\ selectedClipId \in ClipIds(clips)


\* --- caption alignment ---

\* the alignment step has run on one caption span
AlignedOne == capPc = "aligned" /\ Len(captions) = 1

\* the source clip has the trim window [2, 6) of the examples
ExampleWindow == selectedClip.offset = 2 /\ selectedClip.duration = 4

\* the single caption span is {s, e}
CaptionIs(s, e) == captions[1].startTime = s /\ captions[1].endTime = e

\* C8: a caption yields a text clip only if startTime < offset + duration and
\* endTime > offset; a caption entirely before the window or entirely at or
\* after its end yields none ({0,1} and {6,9} against offset 2, duration 4).
C8_OnlyOverlapping ==
    AlignedOne =>
        LET off == selectedClip.offset
            d == selectedClip.duration
            cap == captions[1]
        IN  /\ newClips # <<>> => (cap.startTime < off + d /\ cap.endTime > off)
            /\ (cap.endTime <= off \/ cap.startTime >= off + d) => newClips = <<>>
            /\ (ExampleWindow /\ (CaptionIs(0, 1) \/ CaptionIs(6, 9))) => newClips = <<>>

\* the caption {6,9} has been aligned against offset 2, duration 4 and dropped
C8_Witness ==
    AlignedOne /\ ExampleWindow /\ CaptionIs(6, 9) /\ newClips = <<>>

\* C9: the text clip emitted for a caption starts at
\* sourceClip.startTime + max(0, startTime - offset), lasts
\* min(duration, endTime - offset) - max(0, startTime - offset), carries the
\* caption text as its name, and has type text, empty src and offset 0
\* ({5,8} against offset 2, duration 4: at startTime + 3, lasting 1).
C9_EmittedClip ==
    (AlignedOne /\ newClips # <<>>) =>
        LET off == selectedClip.offset
            d == selectedClip.duration
            cap == captions[1]
            from == IF cap.startTime - off > 0 THEN cap.startTime - off ELSE 0
            to == IF cap.endTime - off < d THEN cap.endTime - off ELSE d
            clip == newClips[1]
        IN  /\ Len(newClips) = 1
            /\ clip.startTime = selectedClip.startTime + from
            /\ clip.duration = to - from
            /\ clip.name = cap.text
            /\ clip.type = "text"
            /\ clip.src = EmptySrc
            /\ clip.offset = 0
            /\ (ExampleWindow /\ CaptionIs(5, 8)) =>
                  (clip.startTime = selectedClip.startTime + 3 /\ clip.duration = 1)

\* the caption {5,8} has been aligned against offset 2, duration 4 and placed
\* 3 after the start of the source clip with duration 1
C9_Witness ==
    /\ AlignedOne /\ ExampleWindow /\ CaptionIs(5, 8)
    /\ Len(newClips) = 1
    /\ newClips[1].startTime = selectedClip.startTime + 3
    /\ newClips[1].duration = 1

\* every span of the transcription result is malformed (startTime >= endTime)
AllMalformed(caps) ==
    /\ Len(caps) > 0
    /\ \A i \in DOMAIN caps : caps[i].startTime >= caps[i].endTime

\* C10: a transcription result made of malformed spans adds no clip and is
\* reported with a diagnostic of its own: not the silence of a successful
\* append, and not the message that stands for captions filtered out by the
\* trim window.
C10_MalformedDiagnosed ==
    [][\A caps \in CaptionSeqs :
          (generateCaptionsResolve(caps) /\ AllMalformed(caps)) =>
              /\ clips' = clips
              /\ alert' \notin {"", "Captions generated but none fall within"}]_vars

----------------------------------------------------------------------------
(* The outcomes of a caption request *)

\* the two early returns of a transcription that resolved
NoSpeechOutcome == "No speech detected"
NoneInWindowOutcome == "Captions generated but none fall within"

\* no span of caps yields a clip for the captured source clip
ZeroSurvive(caps) == Len(AlignCaptions(selectedClip, caps, now)) = 0

\* C11: an empty transcription result and a non-empty result from which zero
\* clips survive are reported with two different outcomes, and in both the
\* clip store and the selection are left as they were.
C11_TwoEmptyOutcomes ==
    [][(capPc = "transcribe" /\ capPc' = "idle") =>
          \A caps \in CaptionSeqs : generateCaptionsResolve(caps) =>
             /\ Len(caps) = 0 =>
                   /\ alert' = NoSpeechOutcome
                   /\ clips' = clips /\ selectedClipId' = selectedClipId
             /\ (Len(caps) > 0 /\ ZeroSurvive(caps)) =>
                   /\ alert' = NoneInWindowOutcome
                   /\ alert' # NoSpeechOutcome
                   /\ clips' = clips /\ selectedClipId' = selectedClipId]_vars

\* a non-empty result has just been reported as falling outside the trimmed
\* segment, with the source clip still stored and selected
C11_Witness ==
    /\ alert = NoneInWindowOutcome
    /\ capPc = "idle" /\ ~isGeneratingCaptions
    /\ Len(clips) > 0
    /\ selectedClipId \in ClipIds(clips)

----------------------------------------------------------------------------
(* The caption batch, against the captured source clip *)

\* the trimmed source range of the captured clip
WindowStart == selectedClip.offset
WindowEnd == selectedClip.offset + selectedClip.duration

\* the span meets the trimmed source range in an interval of positive length
Survives(cap) ==
    Max(cap.startTime, WindowStart) < Min(cap.endTime, WindowEnd)

\* the text clip a surviving span stands for
IsImageOf(clip, cap) ==
    /\ clip.type = "text"
    /\ clip.name = cap.text
    /\ clip.startTime = selectedClip.startTime + (Max(cap.startTime, WindowStart) - WindowStart)
    /\ clip.duration = Min(cap.endTime, WindowEnd) - Max(cap.startTime, WindowStart)

SurvivorIdx == {i \in DOMAIN captions : Survives(captions[i])}
SurvivorRank(i) == Cardinality({j \in SurvivorIdx : j <= i})

\* C12: dropping a span never aborts the batch: the emitted text clips are
\* exactly the images of the surviving spans, one per survivor and in the
\* order of the input, and they are appended in that order to the end of the
\* store.
C12_BatchSurvivors ==
    capPc \in {"aligned", "appended"} =>
        /\ Len(newClips) = Cardinality(SurvivorIdx)
        /\ \A i \in SurvivorIdx : IsImageOf(newClips[SurvivorRank(i)], captions[i])
        /\ capPc = "appended" => clips = <<selectedClip>> \o newClips

\* of two spans the first was dropped and the second was emitted and appended
\* after the source clip
C12_Witness ==
    /\ capPc = "appended"
    /\ Len(captions) = 2
    /\ ~Survives(captions[1]) /\ Survives(captions[2])
    /\ Len(clips) = 2
    /\ clips[1] = selectedClip
    /\ IsImageOf(clips[2], captions[2])

----------------------------------------------------------------------------
(* Frames of the store handlers *)

\* arr without its element at position i
RemoveAt(arr, i) == [j \in 1..(Len(arr) - 1) |-> IF j < i THEN arr[j] ELSE arr[j + 1]]

\* C13: delete removes exactly the clip whose id is the current selection and
\* clears the selection, every other clip staying in place in the same order;
\* with nothing selected, or a selected id that is not stored, the clip
\* collection is left as it was.
C13_DeleteExactlySelected ==
    [][handleDelete =>
          IF selectedClipId \in ClipIds(clips)
          THEN /\ \E i \in DOMAIN clips :
                     /\ clips[i].id = selectedClipId
                     /\ clips' = RemoveAt(clips, i)
               /\ selectedClipId' = NullId
          ELSE clips' = clips]_vars

\* every clip of the store is, after the step, at the same position with the
\* same fields
ClipsKept ==
    /\ Len(clips') >= Len(clips)
    /\ \A i \in DOMAIN clips : clips'[i] = clips[i]

\* sub is arr with some elements left out (order and fields kept)
RECURSIVE IsSubSeq(_, _)
IsSubSeq(sub, arr) ==
    IF Len(sub) = 0 THEN TRUE
    ELSE IF Len(arr) = 0 THEN FALSE
    ELSE IF Head(sub) = Head(arr) THEN IsSubSeq(Tail(sub), Tail(arr))
    ELSE IsSubSeq(sub, Tail(arr))

C15_AppendKeepsInFlightWrites ==
    [][(capPc = "transcribe" /\ capPc' = "idle") =>
          /\ ClipsKept
          /\ \A j \in (Len(clips) + 1)..Len(clips') : clips'[j].type = "text"
          /\ selectedClipId' = selectedClipId
          /\ \A caps \in CaptionSeqs : generateCaptionsResolve(caps) =>
                clips' = clips \o AlignCaptions(selectedClip, caps, now)]_vars

\* a caption clip follows a generated-image clip in a store of MaxClips clips:
\* the source video was deleted while its request was in flight, and the
\* append kept that delete and the image clip
C15_Witness ==
    /\ Len(clips) = 2
    /\ clips[1].name = "Generated Image"
    /\ clips[2].type = "text"
    /\ capPc = "idle" /\ ~isGeneratingCaptions

----------------------------------------------------------------------------
(* Failures of a caption request *)

\* handleAutoCaptions returned before the request started
CaptionRequestRefused == handleAutoCaptions /\ ~isGeneratingCaptions'

\* C16: every failure of a caption request degrades to no change: when the
\* selected clip is missing or not a video, when the fetch fails or when the
\* transcription fails, the clip collection and the selection are exactly as
\* before and an outcome is reported.
C16_FailureNoChange ==
    [][(CaptionRequestRefused \/ fetchReject \/ generateCaptionsReject) =>
          /\ clips' = clips
          /\ selectedClipId' = selectedClipId
          /\ alert' # ""]_vars

\* a request for a stored, selected video clip has just failed and was
\* reported; the clip is still stored and selected
C16_Witness ==
    /\ alert = "Failed to generate captions"
    /\ capPc = "idle" /\ ~isGeneratingCaptions
    /\ \E i \in DOMAIN clips : clips[i].id = selectedClipId /\ clips[i].type = "video"

----------------------------------------------------------------------------
(* Insertions *)

----------------------------------------------------------------------------
(* Overlap test and clamping, against the captured source clip *)

\* the overlap test of the first filter, on the one span of the result
PassesOverlap(cap) ==
    cap.startTime < WindowEnd /\ cap.endTime > WindowStart

WellFormed(cap) == cap.startTime < cap.endTime

\* C18: for a source clip of positive duration and a well-formed span
\* (start < end), a text clip is emitted if and only if the span passes the
\* overlap test: the rejection of degenerate clips never drops a well-formed
\* span that passed the overlap test.
C18_EmittedIffOverlap ==
    (AlignedOne /\ selectedClip.duration > 0 /\ WellFormed(captions[1])) =>
        (Len(newClips) = 1 <=> PassesOverlap(captions[1]))

\* a well-formed span reaching over both ends of the trimmed range was emitted
C18_Witness ==
    /\ AlignedOne
    /\ selectedClip.duration > 0
    /\ WellFormed(captions[1])
    /\ captions[1].startTime < WindowStart /\ captions[1].endTime > WindowEnd
    /\ Len(newClips) = 1

\* C19: every emitted text clip lies inside the timeline interval of its
\* source clip, src.start <= clip.start and clip.start + clip.duration <=
\* src.start + src.duration, whatever the caption sequence and the trim
\* window.
C19_InsideSource ==
    capPc \in {"aligned", "appended"} =>
        \A k \in DOMAIN newClips :
            /\ selectedClip.startTime <= newClips[k].startTime
            /\ newClips[k].startTime + newClips[k].duration
                  <= selectedClip.startTime + selectedClip.duration

\* two spans, one starting before the trimmed range and one ending after it,
\* were both emitted, clamped to the two ends of the source clip
C19_Witness ==
    /\ capPc = "aligned"
    /\ Len(captions) = 2 /\ Len(newClips) = 2
    /\ captions[1].startTime < WindowStart
    /\ captions[2].endTime > WindowEnd
    /\ newClips[1].startTime = selectedClip.startTime
    /\ newClips[2].startTime + newClips[2].duration
          = selectedClip.startTime + selectedClip.duration

----------------------------------------------------------------------------
(* The source clip of a late transcription result *)

\* the clip captured when the request started is in the store
SourceStored == \E i \in DOMAIN clips : clips[i] = selectedClip

\* C20: caption clips are appended only for a source clip that is still in
\* the store: when the selected video clip was deleted while the request was
\* in flight, the late result adds no text clip aligned to it.
C20_AppendOnlyForStoredSource ==
    [][(capPc = "transcribe" /\ capPc' = "idle" /\ clips' # clips) =>
          SourceStored]_vars

----------------------------------------------------------------------------
(* The selection *)

\* C21: in every reachable state the selection is empty or is the id of a
\* clip of the store: no sequence of uploads, additions, selections, deletes
\* and caption appends leaves selectedClipId naming an absent clip.
C21_SelectionStored ==
    selectedClipId = NullId \/ selectedClipId \in ClipIds(clips)

\* the source video was deleted (which cleared the selection) and the caption
\* clip left alone in the store was then selected
C21_Witness ==
    /\ Len(clips) = 1
    /\ clips[1].type = "text"
    /\ selectedClipId = clips[1].id
    /\ capPc = "idle"

----------------------------------------------------------------------------
(* Termination of a caption request *)

\* the external collaborator answers or fails: the fetch of the clip's media
\* or the transcription settles, and the function resumes
CaptionAnswer ==
    \/ fetchResolve
    \/ fetchReject
    \/ generateCaptionsReject
    \/ \E caps \in CaptionSeqs : generateCaptionsResolve(caps)

\* the program with a collaborator that leaves no promise pending forever
LiveSpec == Init /\ [][Next]_vars /\ WF_vars(CaptionAnswer)

\* the selection names a stored video clip (what handleAutoCaptions looks for)
SelectedIsVideo ==
    \E i \in DOMAIN clips : clips[i].id = selectedClipId /\ clips[i].type = "video"

\* C22: every caption request eventually finishes: once the
\* captions-in-progress flag is set it is eventually cleared, whatever the
\* outcome (empty transcription, nothing survives the trim, clips appended,
\* fetch or transcription failure), provided the collaborator eventually
\* answers or fails; and the flag is never set by a request rejected for lack
\* of a selected video clip.
C22_RequestFinishes ==
    /\ isGeneratingCaptions ~> ~isGeneratingCaptions
    /\ [][(handleAutoCaptions /\ ~SelectedIsVideo) => ~isGeneratingCaptions']_vars

\* a request ran to its end with an append: the flag is clear again and the
\* caption clip stands behind its source video
C22_Witness ==
    /\ ~isGeneratingCaptions /\ capPc = "idle"
    /\ Len(clips) = 2
    /\ clips[1].type = "video" /\ clips[2].type = "text"
    /\ alert = ""

====
